---- MODULE Spec2Model ----
(***************************************************************************)
(* Model of the translator plugin: the keyword table (constants.ts), the   *)
(* language-inference chain (utils/languageDetection.ts), the translator   *)
(* (utils/translation.ts) and the TRANSLATE action handler                 *)
(* (actions/translateAction.ts).                                           *)
(*                                                                         *)
(* JavaScript strings are sequences of UTF-16 code units (naturals), so    *)
(* that toLowerCase, trim, includes and template concatenation are         *)
(* computed unit by unit.  JavaScript values are tagged records: Null,     *)
(* Undefined, Str(s).                                                      *)
(***************************************************************************)
EXTENDS Integers, Sequences, FiniteSets, TLC

(***************************************************************************)
(* JavaScript values                                                       *)
(***************************************************************************)
Null == [t |-> "null", v |-> <<>>]

Undefined == [t |-> "undefined", v |-> <<>>]

Str(s) == [t |-> "string", v |-> s]

\* ToBoolean: null, undefined and "" are falsy
Truthy(x) ==
    x.t = "string" /\ x.v # <<>>

(***************************************************************************)
(* String primitives                                                       *)
(***************************************************************************)
\* String.prototype.toLowerCase on one code unit: A-Z map to a-z and the
\* Kelvin sign U+212A maps to k; the kana, kanji, hangul, digits and
\* punctuation used here have no case mapping.
LowerUnit(c) ==
    IF c >= 65 /\ c <= 90 THEN c + 32
    ELSE IF c = 8490 THEN 107
    ELSE c

ToLowerCase(s) == [i \in 1..Len(s) |-> LowerUnit(s[i])]

\* String.prototype.includes
Includes(s, k) ==
    \E i \in 0..(Len(s) - Len(k)) : SubSeq(s, i + 1, i + Len(k)) = k

\* WhiteSpace and LineTerminator code units removed by trim
IsSpace(c) ==
    \/ c \in {9, 10, 11, 12, 13, 32, 160, 5760, 8232, 8233, 8239, 8287,
              12288, 65279}
    \/ c >= 8192 /\ c <= 8202

RECURSIVE TrimStart(_)
TrimStart(s) ==
    IF s # <<>> /\ IsSpace(Head(s)) THEN TrimStart(Tail(s)) ELSE s

RECURSIVE TrimEnd(_)
TrimEnd(s) ==
    IF s # <<>> /\ IsSpace(s[Len(s)])
    THEN TrimEnd(SubSeq(s, 1, Len(s) - 1))
    ELSE s

\* String.prototype.trim
Trim(s) == TrimEnd(TrimStart(s))

(***************************************************************************)
(* constants.ts                                                            *)
(***************************************************************************)
japanese == <<106, 97, 112, 97, 110, 101, 115, 101>>

english == <<101, 110, 103, 108, 105, 115, 104>>

korean == <<107, 111, 114, 101, 97, 110>>

\* Object.entries(LANGUAGE_KEYWORDS): the entries in definition order
LANGUAGE_KEYWORDS ==
    << [language |-> japanese,
        keywords |-> << <<26085, 26412, 35486>>,               \* 日本語
                        <<12395, 12411, 12435, 12372>>,        \* にほんご
                        <<21644, 35379>>,                      \* 和訳
                        <<110, 105, 104, 111, 110, 103, 111>>, \* nihongo
                        <<106, 97, 112, 97, 110, 101, 115, 101>>, \* japanese
                        <<106, 97, 112, 97, 110>>,             \* japan
                        <<51068, 48376, 50612>>,               \* 일본어
                        <<51068, 48376>>,                      \* 일본
                        <<45768, 54844, 44256>> >>],           \* 니혼고
       [language |-> english,
        keywords |-> << <<33521, 35486>>,                      \* 英語
                        <<12360, 12356, 12372>>,               \* えいご
                        <<33521, 35379>>,                      \* 英訳
                        <<101, 105, 103, 111>>,                \* eigo
                        <<101, 110, 103, 108, 105, 115, 104>>, \* english
                        <<101, 110, 103>>,                     \* eng
                        <<50689, 50612>>,                      \* 영어
                        <<51081, 44544, 47532, 49884>>,        \* 잉글리시
                        <<50689, 44397, 50612>> >>],           \* 영국어
       [language |-> korean,
        keywords |-> << <<38867, 22269, 35486>>,               \* 韓国語
                        <<12363, 12435, 12371, 12367, 12372>>, \* かんこくご
                        <<12495, 12531, 12464, 12523>>,        \* ハングル
                        <<107, 97, 110, 107, 111, 107, 117, 103, 111>>, \* kankokugo
                        <<107, 111, 114, 101, 97, 110>>,       \* korean
                        <<107, 111, 114, 101, 97>>,            \* korea
                        <<104, 97, 110, 103, 117, 108>>,       \* hangul
                        <<54620, 44397, 50612>>,               \* 한국어
                        <<54620, 44544>>,                      \* 한글
                        <<51312, 49440, 47568>> >>] >>         \* 조선말

DEFAULT_LANGUAGE == english

(***************************************************************************)
(* utils/languageDetection.ts : detectLanguageByKeywords                   *)
(***************************************************************************)
\* variant: the loop gives up after the first keyword of a language
KeywordLoop_firstOnly(lowerText, keywords, j) ==
    /\ j <= Len(keywords)
    /\ Includes(lowerText, ToLowerCase(keywords[j]))

\* for (const keyword of keywords): TRUE when the loop reaches its return
RECURSIVE KeywordLoop(_, _, _)
KeywordLoop(lowerText, keywords, j) ==
    IF j > Len(keywords) THEN FALSE
    ELSE IF Includes(lowerText, ToLowerCase(keywords[j])) THEN TRUE
    ELSE KeywordLoop(lowerText, keywords, j + 1)

\* variant: the last matching language of the table wins
RECURSIVE LanguageLoop_lastWins(_, _)
LanguageLoop_lastWins(lowerText, i) ==
    IF i > Len(LANGUAGE_KEYWORDS) THEN Null
    ELSE LET rest == LanguageLoop_lastWins(lowerText, i + 1)
         IN  IF rest # Null THEN rest
             ELSE IF KeywordLoop(lowerText, LANGUAGE_KEYWORDS[i].keywords, 1)
                  THEN Str(LANGUAGE_KEYWORDS[i].language)
             ELSE Null

\* for (const [language, keywords] of Object.entries(LANGUAGE_KEYWORDS))
RECURSIVE LanguageLoop(_, _)
LanguageLoop(lowerText, i) ==
    IF i > Len(LANGUAGE_KEYWORDS) THEN Null
    ELSE IF KeywordLoop(lowerText, LANGUAGE_KEYWORDS[i].keywords, 1)
         THEN Str(LANGUAGE_KEYWORDS[i].language)
    ELSE LanguageLoop(lowerText, i + 1)

\* variant: the text is matched without being lower-cased
detectLanguageByKeywords_noLower(t) == LanguageLoop(t, 1)

detectLanguageByKeywords(t) == LanguageLoop(ToLowerCase(t), 1)

(***************************************************************************)
(* Inputs                                                                  *)
(***************************************************************************)
\* at most this many pieces are concatenated into one input text
MaxPieces == 2

UpperUnit(c) == IF c >= 97 /\ c <= 122 THEN c - 32 ELSE c

ToUpperCase(s) == [i \in 1..Len(s) |-> UpperUnit(s[i])]

Capitalize(s) == [i \in 1..Len(s) |-> IF i = 1 THEN UpperUnit(s[i]) ELSE s[i]]

Languages == {LANGUAGE_KEYWORDS[i].language : i \in DOMAIN LANGUAGE_KEYWORDS}

KeywordsAt(i) ==
    {LANGUAGE_KEYWORDS[i].keywords[j] : j \in DOMAIN LANGUAGE_KEYWORDS[i].keywords}

AllKeywords == UNION {KeywordsAt(i) : i \in DOMAIN LANGUAGE_KEYWORDS}

\* text without any trigger substring, and "length", which hides "eng"
Fillers ==
    { <<120, 121, 122>>,                                       \* xyz
      <<116, 114, 97, 110, 115, 108, 97, 116, 101, 32, 116, 111, 32>>, \* "translate to "
      <<32763, 35379, 12375, 12390, 12367, 12384, 12373, 12356>>, \* 翻訳してください
      <<108, 101, 110, 103, 116, 104>>,                        \* length
      <<8490, 79, 82, 69, 65>> }                               \* KOREA, K = U+212A

\* every trigger substring in lower, upper and capitalised form
Pieces ==
    UNION {{k, ToUpperCase(k), Capitalize(k)} : k \in AllKeywords} \cup Fillers

\* the pieces that accompany a piece: a trigger of each language, in lower
\* and in upper case, and text without a trigger
Companions ==
    { <<106, 97, 112, 97, 110>>,                               \* japan
      ToUpperCase(english),                                    \* ENGLISH
      <<54620, 44544>>,                                        \* 한글
      <<120, 121, 122>>,                                       \* xyz
      <<32>> }                                                 \* a space

RECURSIVE Join(_)
Join(ps) == IF ps = <<>> THEN <<>> ELSE Head(ps) \o Join(Tail(ps))

\* the texts of m pieces: one piece of `mains' at any position, the others
\* from Companions
TextsOf(mains, m) ==
    {Join([j \in 1..m |-> IF j = i THEN main ELSE c[j]]) :
        i \in 1..m, main \in mains, c \in [1..m -> Companions]}

TextsOver(mains, n) == UNION {TextsOf(mains, m) : m \in 0..n} \cup {<<>>}

KeywordInputs == TextsOver(Pieces, MaxPieces)

(***************************************************************************)
(* State                                                                   *)
(***************************************************************************)
VARIABLES
    entry,          \* the exported function the caller invoked
    pc,             \* position of the invocation
    text,           \* the text argument of the detection functions
    apiKey,         \* the credential argument of the detection functions
    keywordResult,  \* detectLanguage: const keywordResult
    byPrompt,       \* how detectLanguageByPrompt completed
    detected,       \* how detectLanguage completed
    calls,          \* the chat.completions.create requests issued so far
    pending,        \* the requests awaiting their response
    responses,      \* the outcomes of the settled requests, in order
    caught,         \* the error a catch clause is handling
    setting,        \* runtime.getSetting("OPENAI_API_KEY")
    stateGiven,     \* whether the handler was passed a state
    recent,         \* recentMessagesData of the passed or composed state
    instruction,    \* message.content.text
    textToTranslate, \* handler: const textToTranslate
    targetLanguage, \* handler: let targetLanguage
    translated,     \* how translateText completed
    delivered,      \* the texts passed to the callback, in order
    ret,            \* what the handler returned
    state,          \* handler: the state parameter, reassigned when composed
    invoked         \* the handler's calls of its collaborators, in order

detVars == <<text, apiKey, keywordResult, byPrompt, detected>>

apiVars == <<calls, pending, responses, caught>>

inVars == <<setting, stateGiven, recent, instruction>>

hVars == <<textToTranslate, targetLanguage, translated, delivered, ret>>

logVars == <<state, invoked>>

vars == <<entry, pc, detVars, apiVars, inVars, hVars, logVars>>

NotYet == [t |-> "notyet", v |-> <<>>]

\* completion of a call: still running, returned a value, or threw an Error
\* whose message is the value
Running == [status |-> "running", value |-> NotYet]

Returned(x) == [status |-> "returned", value |-> x]

Raised(m) == [status |-> "raised", value |-> Str(m)]

\* outcome of chat.completions.create: the promise rejects with an Error of
\* message `content', or resolves with no choices, with a null content, or
\* with choices[0].message.content = content
Outcome(k, c) == [kind |-> k, content |-> c]

API_ERROR == <<65, 80, 73, 32, 69, 114, 114, 111, 114>>        \* "API Error"

\* message of the TypeError raised by reading choices[0].message.content
\* .trim() off a response that has no choices or a null content
TYPE_ERROR == <<84, 121, 112, 101, 69, 114, 114, 111, 114>>    \* "TypeError"

\* message of the error `new OpenAI' raises without a key
NO_KEY_ERROR == <<110, 111, 32, 107, 101, 121>>                \* "no key"

ApiOutcomes(contents) ==
    {Outcome("reject", API_ERROR), Outcome("nochoices", <<>>),
     Outcome("nullcontent", <<>>)}
    \cup {Outcome("content", c) : c \in contents}

\* what the model may answer to the classifier's prompt
ClassifierContents ==
    { <<>>,
      <<32, 10>>,                                              \* " \n"
      japanese,
      <<32, 32, 69, 78, 71, 76, 73, 83, 72, 32, 32>>,          \* "  ENGLISH  "
      <<102, 114, 101, 110, 99, 104>> }                        \* french

MOCK_KEY == <<109, 111, 99, 107, 45, 97, 112, 105, 45, 107, 101, 121>> \* mock-api-key

Credentials == {Str(MOCK_KEY), Str(<<>>), Undefined}

\* the instructions of the unit tests and of the action's examples
Instructions ==
    { <<>>,
      <<120, 121, 122>>,                                       \* xyz
      <<116, 114, 97, 110, 115, 108, 97, 116, 101, 32, 116, 104, 105, 115>>, \* translate this
      <<32763, 35379, 12375, 12390, 12367, 12384, 12373, 12356>>, \* 翻訳してください
      <<26085, 26412, 35486, 12395, 32763, 35379>>,            \* 日本語に翻訳
      <<116, 114, 97, 110, 115, 108, 97, 116, 101, 32, 116, 111, 32,
        74, 97, 112, 97, 110, 101, 115, 101>>,                 \* translate to Japanese
      <<84, 82, 65, 78, 83, 76, 65, 84, 69, 32, 84, 79, 32,
        69, 78, 71, 76, 73, 83, 72>>,                          \* TRANSLATE TO ENGLISH
      <<38867, 22269, 35486, 12391, 34920, 31034>>,            \* 韓国語で表示
      <<107, 111, 114, 101, 97, 110, 32, 111, 114, 32,
        101, 110, 103, 108, 105, 115, 104>> }                  \* korean or english

\* the response the code is reading
Latest == responses[Len(responses)]

\* the handler's variables when a utility function is called on its own
HandlerIdle ==
    /\ setting = Undefined
    /\ stateGiven = FALSE
    /\ recent = [defined |-> FALSE, msgs |-> <<>>]
    /\ instruction = Undefined
    /\ textToTranslate = NotYet
    /\ targetLanguage = NotYet
    /\ translated = Running
    /\ delivered = <<>>
    /\ ret = "pending"
    /\ state = "undefined"
    /\ invoked = <<>>

\* a call the handler made: the callee and its arguments
Call(fn, args) == [fn |-> fn, args |-> args]

\* the system message of the classifier's request
DETECT_PROMPT ==
    <<68, 101, 116, 101, 99, 116, 32, 116, 104, 101, 32, 108, 97, 110, 103,
      117, 97, 103, 101, 32, 111, 102, 32, 116, 104, 101, 32, 117, 115, 101,
      114, 39, 115, 32, 109, 101, 115, 115, 97, 103, 101, 32, 97, 110, 100,
      32, 114, 101, 115, 112, 111, 110, 100, 32, 119, 105, 116, 104, 32,
      111, 110, 108, 121, 32, 39, 106, 97, 112, 97, 110, 101, 115, 101, 39,
      44, 32, 39, 101, 110, 103, 108, 105, 115, 104, 39, 44, 32, 111, 114,
      32, 39, 107, 111, 114, 101, 97, 110, 39, 46>>

\* the system message of the translator's request is the template
\* TRANSLATE_HEAD ${targetLanguage} TRANSLATE_TAIL
TRANSLATE_HEAD ==
    <<89, 111, 117, 32, 97, 114, 101, 32, 97, 32, 104, 105, 103, 104, 45,
      113, 117, 97, 108, 105, 116, 121, 32, 116, 114, 97, 110, 115, 108, 97,
      116, 111, 114, 46, 32, 89, 111, 117, 114, 32, 116, 97, 115, 107, 32,
      105, 115, 32, 116, 111, 32, 116, 114, 97, 110, 115, 108, 97, 116, 101,
      32, 116, 104, 101, 32, 103, 105, 118, 101, 110, 32, 116, 101, 120,
      116, 32, 116, 111, 32>>

TRANSLATE_TAIL ==
    <<46, 10, 73, 77, 80, 79, 82, 84, 65, 78, 84, 58, 32, 80, 114, 101, 115,
      101, 114, 118, 101, 32, 97, 108, 108, 32, 77, 97, 114, 107, 100, 111,
      119, 110, 32, 102, 111, 114, 109, 97, 116, 116, 105, 110, 103, 46, 32,
      68, 79, 32, 78, 79, 84, 32, 97, 100, 100, 32, 65, 78, 89, 32, 101,
      120, 112, 108, 97, 110, 97, 116, 105, 111, 110, 115, 32, 111, 114, 32,
      99, 111, 109, 109, 101, 110, 116, 115, 46, 10, 79, 78, 76, 89, 32,
      112, 114, 111, 118, 105, 100, 101, 32, 116, 104, 101, 32, 100, 105,
      114, 101, 99, 116, 32, 116, 114, 97, 110, 115, 108, 97, 116, 105, 111,
      110, 32, 111, 102, 32, 116, 104, 101, 32, 116, 101, 120, 116, 46, 32,
      78, 111, 32, 105, 110, 116, 114, 111, 100, 117, 99, 116, 105, 111,
      110, 115, 44, 32, 110, 111, 32, 113, 117, 101, 115, 116, 105, 111,
      110, 115, 44, 32, 110, 111, 32, 97, 100, 100, 105, 116, 105, 111, 110,
      97, 108, 32, 116, 101, 120, 116, 46>>

\* a template literal prints undefined and null by name
Interpolate(x) ==
    CASE x.t = "string" -> x.v
      [] x.t = "null" -> <<110, 117, 108, 108>>                 \* null
      [] OTHER -> <<117, 110, 100, 101, 102, 105, 110, 101, 100>> \* undefined

SystemPrompt(fn, target) ==
    IF fn = "translateText"
    THEN TRANSLATE_HEAD \o Interpolate(target) \o TRANSLATE_TAIL
    ELSE DETECT_PROMPT

\* chat.completions.create({ model, messages, temperature }) as called by
\* fn(user, [target,] key): messages is the system message, then the user
\* message
Request(fn, key, target, user) ==
    [fn |-> fn, apiKey |-> key, target |-> target, user |-> user,
     messages |-> << [role |-> "system", content |-> SystemPrompt(fn, target)],
                     [role |-> "user", content |-> user] >>]

(***************************************************************************)
(* detectLanguageByKeywords called on its own                              *)
(***************************************************************************)
InitKeywords ==
    /\ entry = "detectLanguageByKeywords"
    /\ pc = "kw_call"
    /\ text \in KeywordInputs
    /\ apiKey = Undefined
    /\ keywordResult = NotYet
    /\ byPrompt = Running
    /\ detected = Running
    /\ calls = <<>>
    /\ pending = {}
    /\ responses = <<>>
    /\ caught = NotYet
    /\ HandlerIdle

CallDetectLanguageByKeywords ==
    /\ pc = "kw_call"
    /\ keywordResult' = detectLanguageByKeywords(text)
    /\ pc' = "done"
    /\ UNCHANGED <<entry, inVars, logVars, hVars, text, apiKey, byPrompt, detected, apiVars>>

NextKeywords == CallDetectLanguageByKeywords

SpecKeywords == InitKeywords /\ [][NextKeywords]_vars

(***************************************************************************)
(* utils/languageDetection.ts : detectLanguageByPrompt, detectLanguage     *)
(***************************************************************************)
\* where control goes when detectLanguageByPrompt completes
AfterPrompt == IF entry = "detectLanguageByPrompt" THEN "done" ELSE "dl_resume"

\* where control goes when detectLanguage completes
AfterDetect == IF entry = "handler" THEN "h_detected" ELSE "done"

\* variant: the classifier is asked before the keyword result is looked at
DetectLanguageStart_promptFirst ==
    /\ pc = "dl_start"
    /\ keywordResult' = detectLanguageByKeywords(text)
    /\ pc' = "dp_start"
    /\ UNCHANGED <<entry, inVars, logVars, hVars, text, apiKey, byPrompt, detected, apiVars>>

\* detectLanguage, step 1: keyword-based detection
DetectLanguageStart ==
    /\ pc = "dl_start"
    /\ LET kw == detectLanguageByKeywords(text)
       IN  /\ keywordResult' = kw
           /\ IF Truthy(kw)
              THEN detected' = Returned(kw) /\ pc' = AfterDetect
              ELSE detected' = detected /\ pc' = "dp_start"
    /\ UNCHANGED <<entry, inVars, logVars, hVars, text, apiKey, byPrompt, apiVars>>

\* detectLanguageByPrompt: new OpenAI({ apiKey }), which raises when no key
\* is given and none is in the environment, then chat.completions.create
PromptRequest ==
    /\ pc = "dp_start"
    /\ \E built \in (IF apiKey = Undefined THEN BOOLEAN ELSE {TRUE}) :
          IF built
          THEN LET req == Request("detectLanguageByPrompt", apiKey, Null, text)
               IN  /\ calls' = Append(calls, req)
                   /\ pending' = pending \cup {Len(calls) + 1}
                   /\ pc' = "dp_await"
                   /\ caught' = caught
          ELSE /\ caught' = Str(NO_KEY_ERROR)
               /\ pc' = "dp_catch"
               /\ UNCHANGED <<calls, pending>>
    /\ UNCHANGED <<entry, inVars, logVars, hVars, detVars, responses>>

\* the awaited request settles
ClassifierResponds ==
    /\ pc = "dp_await"
    /\ \E o \in ApiOutcomes(ClassifierContents) :
          /\ responses' = Append(responses, o)
          /\ pending' = pending \ {Len(calls)}
          /\ IF o.kind = "reject"
             THEN caught' = Str(o.content) /\ pc' = "dp_catch"
             ELSE caught' = caught /\ pc' = "dp_parse"
    /\ UNCHANGED <<entry, inVars, logVars, hVars, detVars, calls>>

\* variant: the answer is returned as the API gave it
PromptParse_raw ==
    /\ pc = "dp_parse"
    /\ IF Latest.kind = "content"
       THEN /\ byPrompt' = Returned(Str(Latest.content))
            /\ pc' = AfterPrompt
            /\ caught' = caught
       ELSE /\ caught' = Str(TYPE_ERROR)
            /\ pc' = "dp_catch"
            /\ byPrompt' = byPrompt
    /\ UNCHANGED <<entry, inVars, logVars, hVars, text, apiKey, keywordResult, detected,
                   calls, pending, responses>>

\* response.choices[0].message.content.trim().toLowerCase()
PromptParse ==
    /\ pc = "dp_parse"
    /\ IF Latest.kind = "content"
       THEN /\ byPrompt' = Returned(Str(ToLowerCase(Trim(Latest.content))))
            /\ pc' = AfterPrompt
            /\ caught' = caught
       ELSE /\ caught' = Str(TYPE_ERROR)
            /\ pc' = "dp_catch"
            /\ byPrompt' = byPrompt
    /\ UNCHANGED <<entry, inVars, logVars, hVars, text, apiKey, keywordResult, detected,
                   calls, pending, responses>>

\* variant: the catch clause logs and throws the error again
PromptCatch_rethrow ==
    /\ pc = "dp_catch"
    /\ byPrompt' = Raised(caught.v)
    /\ pc' = AfterPrompt
    /\ caught' = NotYet
    /\ UNCHANGED <<entry, inVars, logVars, hVars, text, apiKey, keywordResult, detected,
                   calls, pending, responses>>

\* variant: the catch clause sends the request again
PromptCatch_retry ==
    /\ pc = "dp_catch"
    /\ pc' = "dp_start"
    /\ caught' = NotYet
    /\ UNCHANGED <<entry, inVars, logVars, hVars, detVars, calls, pending, responses>>

\* catch (error) { elizaLogger.error(...); return null; }
PromptCatch ==
    /\ pc = "dp_catch"
    /\ byPrompt' = Returned(Null)
    /\ pc' = AfterPrompt
    /\ caught' = NotYet
    /\ UNCHANGED <<entry, inVars, logVars, hVars, text, apiKey, keywordResult, detected,
                   calls, pending, responses>>

\* variant: an answer outside the table is replaced by the default
DetectLanguageResume_validated ==
    /\ pc = "dl_resume"
    /\ detected' =
          IF byPrompt.status = "raised" THEN byPrompt
          ELSE IF Truthy(byPrompt.value) /\ byPrompt.value.v \in Languages
               THEN Returned(byPrompt.value)
          ELSE Returned(Str(DEFAULT_LANGUAGE))
    /\ pc' = AfterDetect
    /\ UNCHANGED <<entry, inVars, logVars, hVars, text, apiKey, keywordResult, byPrompt, apiVars>>

\* variant: the classifier's result is returned whenever it is not null
DetectLanguageResume_notNull ==
    /\ pc = "dl_resume"
    /\ detected' =
          IF byPrompt.status = "raised" THEN byPrompt
          ELSE IF byPrompt.value # Null THEN Returned(byPrompt.value)
          ELSE Returned(Str(DEFAULT_LANGUAGE))
    /\ pc' = AfterDetect
    /\ UNCHANGED <<entry, inVars, logVars, hVars, text, apiKey, keywordResult, byPrompt, apiVars>>

\* detectLanguage, steps 2 and 3: the awaited classifier result, else the
\* default; an error of the awaited call would propagate to the caller
DetectLanguageResume ==
    /\ pc = "dl_resume"
    /\ detected' =
          IF byPrompt.status = "raised" THEN byPrompt
          ELSE IF Truthy(byPrompt.value) THEN Returned(byPrompt.value)
          ELSE Returned(Str(DEFAULT_LANGUAGE))
    /\ pc' = AfterDetect
    /\ UNCHANGED <<entry, inVars, logVars, hVars, text, apiKey, keywordResult, byPrompt, apiVars>>

\* detectLanguage or detectLanguageByPrompt called on its own, as the unit
\* tests do, with any text and any credential
InitDetect ==
    /\ entry \in {"detectLanguage", "detectLanguageByPrompt"}
    /\ pc = (IF entry = "detectLanguage" THEN "dl_start" ELSE "dp_start")
    /\ text \in Instructions
    /\ apiKey \in Credentials
    /\ keywordResult = NotYet
    /\ byPrompt = Running
    /\ detected = Running
    /\ calls = <<>>
    /\ pending = {}
    /\ responses = <<>>
    /\ caught = NotYet
    /\ HandlerIdle

NextDetect ==
    \/ DetectLanguageStart
    \/ PromptRequest
    \/ ClassifierResponds
    \/ PromptParse
    \/ PromptCatch
    \/ DetectLanguageResume

SpecDetect == InitDetect /\ [][NextDetect]_vars

\* the event loop runs every continuation that is ready, and a request that
\* was sent settles
FairSpecDetect == SpecDetect /\ WF_vars(NextDetect)

(***************************************************************************)
(* utils/translation.ts : translateText                                    *)
(***************************************************************************)
WRAP_PREFIX ==                               \* "Error occurred during translation: "
    <<69, 114, 114, 111, 114, 32, 111, 99, 99, 117, 114, 114, 101, 100, 32, 100, 117, 114, 105, 110, 103, 32, 116, 114, 97, 110, 115, 108, 97, 116, 105, 111, 110, 58, 32>>

\* what the model may answer to the translator's prompt
TranslatorContents ==
    { <<>>,
      <<32, 32, 12371, 12435, 12395, 12385, 12399, 12289, 19990, 30028, 65281, 10>>,  \* "  こんにちは、世界！\n"
      <<35, 32, 84, 105, 116, 108, 101>> }               \* "# Title"

\* where control goes when translateText completes
AfterTranslate == IF entry = "handler" THEN "h_translated" ELSE "done"

\* new OpenAI({ apiKey }) and chat.completions.create, with the target
\* language inside the system message and the text as the user message
TranslateRequest ==
    /\ pc = "tt_start"
    /\ \E built \in (IF apiKey = Undefined THEN BOOLEAN ELSE {TRUE}) :
          IF built
          THEN LET req == Request("translateText", apiKey, targetLanguage,
                                  textToTranslate.v)
               IN  /\ calls' = Append(calls, req)
                   /\ pending' = pending \cup {Len(calls) + 1}
                   /\ pc' = "tt_await"
                   /\ caught' = caught
          ELSE /\ caught' = Str(NO_KEY_ERROR)
               /\ pc' = "tt_catch"
               /\ UNCHANGED <<calls, pending>>
    /\ UNCHANGED <<entry, inVars, logVars, hVars, detVars, responses>>

\* the awaited request settles
TranslatorResponds ==
    /\ pc = "tt_await"
    /\ \E o \in ApiOutcomes(TranslatorContents) :
          /\ responses' = Append(responses, o)
          /\ pending' = pending \ {Len(calls)}
          /\ IF o.kind = "reject"
             THEN caught' = Str(o.content) /\ pc' = "tt_catch"
             ELSE caught' = caught /\ pc' = "tt_parse"
    /\ UNCHANGED <<entry, inVars, logVars, hVars, detVars, calls>>

\* variant: the content is returned as the API gave it
TranslateParse_raw ==
    /\ pc = "tt_parse"
    /\ IF Latest.kind = "content"
       THEN /\ translated' = Returned(Str(Latest.content))
            /\ pc' = AfterTranslate
            /\ caught' = caught
       ELSE /\ caught' = Str(TYPE_ERROR)
            /\ pc' = "tt_catch"
            /\ translated' = translated
    /\ UNCHANGED <<entry, inVars, logVars, detVars, calls, pending, responses,
                   textToTranslate, targetLanguage, delivered, ret>>

\* return response.choices[0].message.content.trim()
TranslateParse ==
    /\ pc = "tt_parse"
    /\ IF Latest.kind = "content"
       THEN /\ translated' = Returned(Str(Trim(Latest.content)))
            /\ pc' = AfterTranslate
            /\ caught' = caught
       ELSE /\ caught' = Str(TYPE_ERROR)
            /\ pc' = "tt_catch"
            /\ translated' = translated
    /\ UNCHANGED <<entry, inVars, logVars, detVars, calls, pending, responses,
                   textToTranslate, targetLanguage, delivered, ret>>

\* variant: the catch clause sends the request again
TranslateCatch_retry ==
    /\ pc = "tt_catch"
    /\ pc' = "tt_start"
    /\ caught' = NotYet
    /\ UNCHANGED <<entry, inVars, logVars, hVars, detVars, calls, pending,
                   responses>>

\* variant: the catch clause throws the error it caught
TranslateCatch_unwrapped ==
    /\ pc = "tt_catch"
    /\ translated' = Raised(caught.v)
    /\ pc' = AfterTranslate
    /\ caught' = NotYet
    /\ UNCHANGED <<entry, inVars, logVars, detVars, calls, pending, responses,
                   textToTranslate, targetLanguage, delivered, ret>>

\* catch (error) { ...; throw new Error(`Error occurred during
\* translation: ${error.message}`); }
TranslateCatch ==
    /\ pc = "tt_catch"
    /\ translated' = Raised(WRAP_PREFIX \o caught.v)
    /\ pc' = AfterTranslate
    /\ caught' = NotYet
    /\ UNCHANGED <<entry, inVars, logVars, detVars, calls, pending, responses,
                   textToTranslate, targetLanguage, delivered, ret>>

\* the texts translateText is given in its unit tests, one of them padded
SourceTexts ==
    { <<72, 101, 108, 108, 111, 44, 32, 119, 111, 114, 108, 100, 33>>,  \* "Hello, world!"
      <<32, 35, 32, 84, 105, 116, 108, 101, 10, 10, 45, 32, 73, 116, 101, 109, 32, 49, 10>>,  \* " # Title\n\n- Item 1\n"
      <<>> }

\* translateText called on its own, as its unit tests do, with any target
\* language and any credential
InitTranslate ==
    /\ entry = "translateText"
    /\ pc = "tt_start"
    /\ textToTranslate \in {Str(t) : t \in SourceTexts}
    /\ targetLanguage \in {Str(japanese), Str(korean),
                           Str(<<102, 114, 101, 110, 99, 104>>)}   \* french
    /\ apiKey \in Credentials
    /\ text = <<>>
    /\ keywordResult = NotYet
    /\ byPrompt = Running
    /\ detected = Running
    /\ calls = <<>>
    /\ pending = {}
    /\ responses = <<>>
    /\ caught = NotYet
    /\ setting = Undefined
    /\ stateGiven = FALSE
    /\ recent = [defined |-> FALSE, msgs |-> <<>>]
    /\ instruction = Undefined
    /\ translated = Running
    /\ delivered = <<>>
    /\ ret = "pending"
    /\ state = "undefined"
    /\ invoked = <<>>

NextTranslate ==
    \/ TranslateRequest
    \/ TranslatorResponds
    \/ TranslateParse
    \/ TranslateCatch

SpecTranslate == InitTranslate /\ [][NextTranslate]_vars

(***************************************************************************)
(* actions/translateAction.ts : translateAction.handler                    *)
(***************************************************************************)
MSG_NO_KEY ==                                \* "OpenAI API key is not configured"
    <<79, 112, 101, 110, 65, 73, 32, 65, 80, 73, 32, 107, 101, 121, 32, 105, 115, 32, 110, 111, 116, 32, 99, 111, 110, 102, 105, 103, 117, 114, 101, 100>>

MSG_NO_PREVIOUS ==                           \* "No previous message to translate"
    <<78, 111, 32, 112, 114, 101, 118, 105, 111, 117, 115, 32, 109, 101, 115, 115, 97, 103, 101, 32, 116, 111, 32, 116, 114, 97, 110, 115, 108, 97, 116, 101>>

MSG_NO_AGENT ==                              \* "No agent message found to translate"
    <<78, 111, 32, 97, 103, 101, 110, 116, 32, 109, 101, 115, 115, 97, 103, 101, 32, 102, 111, 117, 110, 100, 32, 116, 111, 32, 116, 114, 97, 110, 115, 108, 97, 116, 101>>

MSG_NO_LANGUAGE ==                           \* "Could not detect target language"
    <<67, 111, 117, 108, 100, 32, 110, 111, 116, 32, 100, 101, 116, 101, 99, 116, 32, 116, 97, 114, 103, 101, 116, 32, 108, 97, 110, 103, 117, 97, 103, 101>>

ERROR_PREFIX ==                              \* "Error during translation: "
    <<69, 114, 114, 111, 114, 32, 100, 117, 114, 105, 110, 103, 32, 116, 114, 97, 110, 115, 108, 97, 116, 105, 111, 110, 58, 32>>

\* message of the error composeState raises
COMPOSE_ERROR == <<99, 111, 109, 112, 111, 115, 101, 32, 102, 97, 105, 108, 101, 100>>  \* "compose failed"

AGENT_ID == "agent"

\* the longest recentMessagesData
MaxHistory == 3

Message(userId, t) == [userId |-> userId, text |-> t]

\* the entries of recentMessagesData: agent-authored with two different
\* texts, agent-authored without text, and user-authored
MessageShapes ==
    { Message(AGENT_ID, Str(<<72, 101, 108, 108, 111, 44, 32, 119, 111, 114, 108, 100, 33>>)),  \* "Hello, world!"
      Message(AGENT_ID, Str(<<35, 32, 84, 105, 116, 108, 101>>)),        \* "# Title"
      Message(AGENT_ID, Undefined),
      Message("user", Str(<<104, 105>>)) }                                \* "hi"

\* recentMessagesData: missing from the state, or a list of entries
Histories ==
    {[defined |-> FALSE, msgs |-> <<>>]}
    \cup UNION {{[defined |-> TRUE, msgs |-> m] : m \in [1..n -> MessageShapes]} :
                    n \in 0..MaxHistory}

\* variant: find without reverse, the first agent-authored entry
FindLastAgent_first(msgs, i) ==
    IF \E k \in 1..i : msgs[k].userId = AGENT_ID
    THEN CHOOSE k \in 1..i :
            /\ msgs[k].userId = AGENT_ID
            /\ \A h \in 1..(k - 1) : msgs[h].userId # AGENT_ID
    ELSE 0

\* variant: the last entry, whoever wrote it
FindLastAgent_any(msgs, i) == i

\* previousMessages.slice().reverse().find(msg => msg.userId === agentId):
\* the index of the entry found, 0 when there is none
RECURSIVE FindLastAgent(_, _)
FindLastAgent(msgs, i) ==
    IF i = 0 THEN 0
    ELSE IF msgs[i].userId = AGENT_ID THEN i
    ELSE FindLastAgent(msgs, i - 1)

Deliver(m) == delivered' = Append(delivered, m)

InitHandler ==
    /\ entry = "handler"
    /\ pc = "h_start"
    /\ setting \in Credentials
    /\ stateGiven \in BOOLEAN
    /\ recent \in Histories
    /\ instruction \in {Undefined} \cup {Str(i) : i \in Instructions}
    /\ text = <<>>
    /\ apiKey = Undefined
    /\ keywordResult = NotYet
    /\ byPrompt = Running
    /\ detected = Running
    /\ calls = <<>>
    /\ pending = {}
    /\ responses = <<>>
    /\ caught = NotYet
    /\ textToTranslate = NotYet
    /\ targetLanguage = NotYet
    /\ translated = Running
    /\ delivered = <<>>
    /\ ret = "pending"
    /\ state = (IF stateGiven THEN "passed" ELSE "undefined")
    /\ invoked = <<>>

\* variant: only a missing setting counts, an empty one passes
KeyMissing_undefinedOnly(k) == k = Undefined

\* if (!apiKey)
KeyMissing(k) == ~Truthy(k)

\* the API key check
HandlerStart ==
    /\ pc = "h_start"
    /\ apiKey' = setting
    /\ IF KeyMissing(setting)
       THEN Deliver(MSG_NO_KEY) /\ ret' = "false" /\ pc' = "done"
       ELSE /\ pc' = (IF state = "undefined" THEN "h_compose" ELSE "h_history")
            /\ UNCHANGED <<delivered, ret>>
    /\ UNCHANGED <<entry, inVars, logVars, apiVars, text, keywordResult, byPrompt,
                   detected, textToTranslate, targetLanguage, translated>>

\* state = await runtime.composeState(message)
HandlerComposeState ==
    /\ pc = "h_compose"
    /\ invoked' = Append(invoked, Call("composeState", <<instruction>>))
    /\ \E composed \in BOOLEAN :
          IF composed
          THEN pc' = "h_history" /\ state' = "composed" /\ caught' = caught
          ELSE pc' = "h_catch" /\ state' = state /\ caught' = Str(COMPOSE_ERROR)
    /\ UNCHANGED <<entry, inVars, hVars, detVars, calls, pending, responses>>

\* variant: one entry is enough
TooShort_lessThanOne(msgs) == Len(msgs) < 1

\* if (previousMessages.length < 2)
TooShort(msgs) == Len(msgs) < 2

\* the entry found has a content with a text: neither !lastAgentMessage
\* .content nor !lastAgentMessage.content.text
HasText(msg) == Truthy(msg.text)

\* variant: the agent's message is looked for before the length is checked
HandlerSelectMessage_agentFirst ==
    /\ pc = "h_history"
    /\ LET last == FindLastAgent(recent.msgs, Len(recent.msgs))
           userInstruction == IF Truthy(instruction) THEN instruction.v ELSE <<>>
       IN  IF ~recent.defined
           THEN /\ caught' = Str(TYPE_ERROR)
                /\ pc' = "h_catch"
                /\ UNCHANGED <<delivered, ret, textToTranslate, text, invoked>>
           ELSE IF last = 0 \/ ~HasText(recent.msgs[last])
           THEN /\ Deliver(MSG_NO_AGENT) /\ ret' = "false" /\ pc' = "done"
                /\ UNCHANGED <<caught, textToTranslate, text, invoked>>
           ELSE IF TooShort(recent.msgs)
           THEN /\ Deliver(MSG_NO_PREVIOUS) /\ ret' = "false" /\ pc' = "done"
                /\ UNCHANGED <<caught, textToTranslate, text, invoked>>
           ELSE /\ textToTranslate' = recent.msgs[last].text
                /\ text' = userInstruction
                /\ invoked' = Append(invoked,
                      Call("detectLanguage", <<Str(userInstruction), apiKey>>))
                /\ pc' = "dl_start"
                /\ UNCHANGED <<caught, delivered, ret>>
    /\ UNCHANGED <<entry, inVars, state, apiKey, keywordResult, byPrompt,
                   detected, calls, pending, responses, targetLanguage,
                   translated>>

\* the history checks, the text to translate, the user's instruction and
\* the call of detectLanguage
HandlerSelectMessage ==
    /\ pc = "h_history"
    /\ LET last == FindLastAgent(recent.msgs, Len(recent.msgs))
           userInstruction == IF Truthy(instruction) THEN instruction.v ELSE <<>>
       IN  IF ~recent.defined
           THEN /\ caught' = Str(TYPE_ERROR)
                /\ pc' = "h_catch"
                /\ UNCHANGED <<delivered, ret, textToTranslate, text, invoked>>
           ELSE IF TooShort(recent.msgs)
           THEN /\ Deliver(MSG_NO_PREVIOUS) /\ ret' = "false" /\ pc' = "done"
                /\ UNCHANGED <<caught, textToTranslate, text, invoked>>
           ELSE IF last = 0 \/ ~HasText(recent.msgs[last])
           THEN /\ Deliver(MSG_NO_AGENT) /\ ret' = "false" /\ pc' = "done"
                /\ UNCHANGED <<caught, textToTranslate, text, invoked>>
           ELSE /\ textToTranslate' = recent.msgs[last].text
                /\ text' = userInstruction
                /\ invoked' = Append(invoked,
                      Call("detectLanguage", <<Str(userInstruction), apiKey>>))
                /\ pc' = "dl_start"
                /\ UNCHANGED <<caught, delivered, ret>>
    /\ UNCHANGED <<entry, inVars, state, apiKey, keywordResult, byPrompt,
                   detected, calls, pending, responses, targetLanguage,
                   translated>>

\* variant: no try around detectLanguage, its error reaches the outer catch
HandlerAfterDetect_noInnerTry ==
    /\ pc = "h_detected"
    /\ IF detected.status = "raised"
       THEN /\ caught' = detected.value /\ pc' = "h_catch"
            /\ UNCHANGED <<targetLanguage, invoked>>
       ELSE /\ targetLanguage' = detected.value
            /\ invoked' = Append(invoked,
                  Call("translateText",
                       <<textToTranslate, detected.value, apiKey>>))
            /\ pc' = "tt_start"
            /\ caught' = caught
    /\ UNCHANGED <<entry, inVars, state, detVars, calls, pending, responses,
                   textToTranslate, translated, delivered, ret>>

\* variant: the translator is always asked for the default language
HandlerAfterDetect_defaultLanguage ==
    /\ pc = "h_detected"
    /\ IF detected.status = "raised"
       THEN /\ Deliver(MSG_NO_LANGUAGE) /\ ret' = "false" /\ pc' = "done"
            /\ UNCHANGED <<targetLanguage, invoked>>
       ELSE /\ targetLanguage' = Str(DEFAULT_LANGUAGE)
            /\ invoked' = Append(invoked,
                  Call("translateText",
                       <<textToTranslate, Str(DEFAULT_LANGUAGE), apiKey>>))
            /\ pc' = "tt_start"
            /\ UNCHANGED <<delivered, ret>>
    /\ UNCHANGED <<entry, inVars, state, detVars, apiVars, textToTranslate,
                   translated>>

\* the try around detectLanguage: its catch clause, else the call of
\* translateText
HandlerAfterDetect ==
    /\ pc = "h_detected"
    /\ IF detected.status = "raised"
       THEN /\ Deliver(MSG_NO_LANGUAGE) /\ ret' = "false" /\ pc' = "done"
            /\ UNCHANGED <<targetLanguage, invoked>>
       ELSE /\ targetLanguage' = detected.value
            /\ invoked' = Append(invoked,
                  Call("translateText",
                       <<textToTranslate, detected.value, apiKey>>))
            /\ pc' = "tt_start"
            /\ UNCHANGED <<delivered, ret>>
    /\ UNCHANGED <<entry, inVars, state, detVars, apiVars, textToTranslate,
                   translated>>

\* the awaited translateText: its error goes to the outer catch clause, its
\* value to the callback, after which the function ends without a return
HandlerDeliver ==
    /\ pc = "h_translated"
    /\ IF translated.status = "raised"
       THEN /\ caught' = translated.value
            /\ pc' = "h_catch"
            /\ UNCHANGED <<delivered, ret>>
       ELSE /\ Deliver(translated.value.v)
            /\ ret' = "undefined"
            /\ pc' = "done"
            /\ caught' = caught
    /\ UNCHANGED <<entry, inVars, logVars, detVars, calls, pending, responses,
                   textToTranslate, targetLanguage, translated>>

\* variant: the error's message is delivered as it is
HandlerCatch_noPrefix ==
    /\ pc = "h_catch"
    /\ Deliver(caught.v)
    /\ ret' = "false"
    /\ pc' = "done"
    /\ caught' = NotYet
    /\ UNCHANGED <<entry, inVars, logVars, detVars, calls, pending, responses,
                   textToTranslate, targetLanguage, translated>>

\* variant: the catch clause returns false without a message
HandlerCatch_silent ==
    /\ pc = "h_catch"
    /\ ret' = "false"
    /\ pc' = "done"
    /\ caught' = NotYet
    /\ UNCHANGED <<entry, inVars, logVars, detVars, calls, pending, responses,
                   textToTranslate, targetLanguage, translated, delivered>>

\* catch (error): the error's message is delivered behind a prefix
HandlerCatch ==
    /\ pc = "h_catch"
    /\ Deliver(ERROR_PREFIX \o caught.v)
    /\ ret' = "false"
    /\ pc' = "done"
    /\ caught' = NotYet
    /\ UNCHANGED <<entry, inVars, logVars, detVars, calls, pending, responses,
                   textToTranslate, targetLanguage, translated>>

Init == InitHandler

Next ==
    \/ HandlerStart
    \/ HandlerComposeState
    \/ HandlerSelectMessage
    \/ DetectLanguageStart
    \/ PromptRequest
    \/ ClassifierResponds
    \/ PromptParse
    \/ PromptCatch
    \/ DetectLanguageResume
    \/ HandlerAfterDetect
    \/ TranslateRequest
    \/ TranslatorResponds
    \/ TranslateParse
    \/ TranslateCatch
    \/ HandlerDeliver
    \/ HandlerCatch

Spec == Init /\ [][Next]_vars

(***************************************************************************)
(* The handler with detectLanguage and translateText mocked, as in         *)
(* __tests__/actions/translateAction.test.ts                               *)
(***************************************************************************)
DETECTION_ERROR ==                           \* "Language detection error"
    <<76, 97, 110, 103, 117, 97, 103, 101, 32, 100, 101, 116, 101, 99, 116, 105, 111, 110, 32, 101, 114, 114, 111, 114>>

TRANSLATION_ERROR ==                         \* "Translation error"
    <<84, 114, 97, 110, 115, 108, 97, 116, 105, 111, 110, 32, 101, 114, 114, 111, 114>>

\* what the mocked detectLanguage resolves or rejects with
MockDetections ==
    {Returned(Str(japanese)), Returned(Str(english)), Raised(DETECTION_ERROR)}

\* what the mocked translateText resolves or rejects with
MockTranslations ==
    { Returned(Str(<<32763, 35379, 12373, 12428, 12383, 12513, 12483, 12475, 12540, 12472>>)),  \* 翻訳されたメッセージ
      Returned(Str(<<84, 114, 97, 110, 115, 108, 97, 116, 101, 100, 32, 109, 101, 115, 115, 97, 103, 101>>)),  \* Translated message
      Raised(TRANSLATION_ERROR),
      Raised(WRAP_PREFIX \o API_ERROR) }

\* vi.mocked(languageDetection.detectLanguage)
MockDetectLanguage ==
    /\ pc = "dl_start"
    /\ \E r \in MockDetections : detected' = r
    /\ pc' = "h_detected"
    /\ UNCHANGED <<entry, inVars, logVars, hVars, apiVars, text, apiKey,
                   keywordResult, byPrompt>>

\* vi.mocked(translation.translateText)
MockTranslateText ==
    /\ pc = "tt_start"
    /\ \E r \in MockTranslations : translated' = r
    /\ pc' = "h_translated"
    /\ UNCHANGED <<entry, inVars, logVars, detVars, apiVars, textToTranslate,
                   targetLanguage, delivered, ret>>

NextMocked ==
    \/ HandlerStart
    \/ HandlerComposeState
    \/ HandlerSelectMessage
    \/ MockDetectLanguage
    \/ HandlerAfterDetect
    \/ MockTranslateText
    \/ HandlerDeliver
    \/ HandlerCatch

SpecMocked == InitHandler /\ [][NextMocked]_vars

(***************************************************************************)
(* Properties of detectLanguageByKeywords                                  *)
(***************************************************************************)
\* two code units are the same letter up to case
SameLetter(a, b) == LowerUnit(a) = LowerUnit(b)

\* t contains k as a substring, in any letter case
ContainsAnyCase(t, k) ==
    \E i \in 0..(Len(t) - Len(k)) :
        \A j \in 1..Len(k) : SameLetter(t[i + j], k[j])

\* the lower-cased t contains a trigger substring registered under language i
HasTrigger(t, i) == \E k \in KeywordsAt(i) : Includes(ToLowerCase(t), k)

TriggeredLanguages(t) == {i \in DOMAIN LANGUAGE_KEYWORDS : HasTrigger(t, i)}

Earliest(S) == CHOOSE i \in S : \A j \in S : i <= j

KeywordsDone == entry = "detectLanguageByKeywords" /\ pc = "done"

\* C4 as stated: a text containing a trigger substring K of language L, in
\* any letter case, is always classified as L.
C4_Original ==
    KeywordsDone =>
        \A i \in DOMAIN LANGUAGE_KEYWORDS : \A k \in KeywordsAt(i) :
            ContainsAnyCase(text, k) =>
                keywordResult = Str(LANGUAGE_KEYWORDS[i].language)

\* C4 (amended): a text containing a trigger substring K of language L, in
\* any letter case, and no trigger substring of a language defined before L
\* in the table, is classified as L.
C4_TriggerGivesLanguage ==
    KeywordsDone =>
        \A i \in DOMAIN LANGUAGE_KEYWORDS : \A k \in KeywordsAt(i) :
            (/\ ContainsAnyCase(text, k)
             /\ \A h \in 1..(i - 1) : ~HasTrigger(text, h))
            => keywordResult = Str(LANGUAGE_KEYWORDS[i].language)

\* "translate to ENGLISH" has been classified as english
C4_Witness ==
    /\ KeywordsDone
    /\ text = <<116, 114, 97, 110, 115, 108, 97, 116, 101, 32, 116, 111, 32>>
                \o ToUpperCase(english)
    /\ keywordResult = Str(english)

\* C5: when the text holds trigger substrings of two or more languages, the
\* result is the one among them that the table defines first, wherever the
\* substrings stand in the text.
C5_TableOrderWins ==
    (KeywordsDone /\ Cardinality(TriggeredLanguages(text)) >= 2) =>
        keywordResult =
            Str(LANGUAGE_KEYWORDS[Earliest(TriggeredLanguages(text))].language)

\* "koreanENGLISH": the korean trigger stands first, english is returned
C5_Witness ==
    /\ KeywordsDone
    /\ text = korean \o ToUpperCase(english)
    /\ TriggeredLanguages(text) = {2, 3}
    /\ keywordResult = Str(english)

\* C6: the result is null exactly when the lower-cased text contains no
\* registered trigger substring; otherwise it is a language of the table.
C6_NullIffNoTrigger ==
    KeywordsDone =>
        /\ keywordResult = Null <=> TriggeredLanguages(text) = {}
        /\ keywordResult # Null =>
               /\ keywordResult.t = "string"
               /\ keywordResult.v \in Languages

\* a non-empty text without any trigger has been classified as null
C6_Witness ==
    /\ KeywordsDone
    /\ Len(text) > 0
    /\ TriggeredLanguages(text) = {}
    /\ keywordResult = Null

(***************************************************************************)
(* Properties of detectLanguageByPrompt and detectLanguage                 *)
(***************************************************************************)
\* the classifier's request, when one was sent, is the first request
ClassifierAsked ==
    calls # <<>> /\ calls[1].fn = "detectLanguageByPrompt"

ClassifierSettled == ClassifierAsked /\ responses # <<>>

\* the classifier's API call failed: the client could not be built, the
\* request was rejected, or the response has no readable
\* choices[0].message.content
ClassifierFailed ==
    \/ byPrompt.status # "running" /\ ~ClassifierAsked
    \/ ClassifierSettled /\ responses[1].kind # "content"

\* the classifier's answer, trimmed and lower-cased
NormalizedAnswer == ToLowerCase(Trim(responses[1].content))

ClassifierAnswered == ClassifierSettled /\ responses[1].kind = "content"

DetectDone == entry = "detectLanguage" /\ pc = "done"

\* C1: when detectLanguageByKeywords returns a language for the text,
\* detectLanguage returns that language and no request is ever sent,
\* whatever the credential.
C1_KeywordHitSkipsClassifier ==
    (entry = "detectLanguage" /\ detectLanguageByKeywords(text) # Null) =>
        /\ calls = <<>>
        /\ pending = {}
        /\ byPrompt = Running
        /\ pc = "done" => detected = Returned(detectLanguageByKeywords(text))

\* "日本語に翻訳" was detected as japanese without a key and without a request
C1_Witness ==
    /\ DetectDone
    /\ text = <<26085, 26412, 35486, 12395, 32763, 35379>>
    /\ apiKey = Undefined
    /\ detected = Returned(Str(japanese))
    /\ calls = <<>>

\* C2: every call of detectLanguage terminates, and it terminates by
\* returning a non-empty string, never by raising.
C2_NeverFails ==
    (entry = "detectLanguage") ~>
        (pc = "done" /\ detected.status = "returned" /\ Truthy(detected.value))

\* detectLanguage returned although the response had no choices
C2_Witness ==
    /\ DetectDone
    /\ ClassifierSettled
    /\ responses[1].kind = "nochoices"
    /\ detected.status = "returned"
    /\ Truthy(detected.value)

\* C3: without a trigger substring in the text, a classifier that throws or
\* answers with a string that is empty once trimmed and lower-cased makes
\* detectLanguage return "english".
C3_DefaultWhenAllFail ==
    (/\ DetectDone
     /\ TriggeredLanguages(text) = {}
     /\ \/ ClassifierFailed
        \/ ClassifierAnswered /\ NormalizedAnswer = <<>>)
    => detected = Returned(Str(<<101, 110, 103, 108, 105, 115, 104>>))

\* the classifier answered " \n" and english was returned
C3_Witness ==
    /\ DetectDone
    /\ ClassifierAnswered
    /\ responses[1].content = <<32, 10>>
    /\ detected = Returned(Str(english))

\* C9: detectLanguageByPrompt never raises, and when its API call fails it
\* returns null.
C9_PromptNeverRaises ==
    /\ byPrompt.status # "raised"
    /\ (byPrompt.status = "returned" /\ ClassifierFailed) =>
           byPrompt.value = Null

\* detectLanguageByPrompt returned null after its request was rejected
C9_Witness ==
    /\ entry = "detectLanguageByPrompt"
    /\ pc = "done"
    /\ ClassifierSettled
    /\ responses[1].kind = "reject"
    /\ byPrompt = Returned(Null)

\* C10: an answer that is empty once trimmed and lower-cased makes
\* detectLanguageByPrompt return null, so that it only ever returns null or
\* a non-empty string.
C10_EmptyAnswerIsNull ==
    byPrompt.status = "returned" =>
        /\ (ClassifierAnswered /\ NormalizedAnswer = <<>>) =>
               byPrompt.value = Null
        /\ byPrompt.value = Null \/ Truthy(byPrompt.value)

(***************************************************************************)
(* Properties of the handler's requests                                    *)
(***************************************************************************)
CallsOf(fn) == {i \in DOMAIN calls : calls[i].fn = fn}

\* C7: one handler invocation sends at most one classifier request and at
\* most one translator request, the translator's only once detection has
\* completed and its request has settled, never two at a time, and none is
\* sent again after a failure.
C7_AtMostTwoSequentialCalls ==
    /\ Len(calls) <= 2
    /\ Cardinality(CallsOf("detectLanguageByPrompt")) <= 1
    /\ Cardinality(CallsOf("translateText")) <= 1
    /\ Cardinality(pending) <= 1
    /\ \A i \in CallsOf("translateText") :
          /\ detected.status = "returned"
          /\ calls[i].target = detected.value
          /\ \A j \in CallsOf("detectLanguageByPrompt") :
                j < i /\ j \notin pending /\ Len(responses) >= j

\* both requests were sent and both were rejected, and the handler is done
C7_Witness ==
    /\ entry = "handler"
    /\ pc = "done"
    /\ Len(calls) = 2
    /\ Len(responses) = 2
    /\ responses[1].kind = "reject"
    /\ responses[2].kind = "reject"

\* C8: without a keyword match, a classifier answer that is non-empty once
\* trimmed and lower-cased is what detectLanguage returns, inside the table
\* or not, and it is the target language of the translator's request.
C8_AnswerPassedThrough ==
    (/\ entry = "handler"
     /\ detected.status = "returned"
     /\ keywordResult = Null
     /\ ClassifierAnswered
     /\ NormalizedAnswer # <<>>)
    => /\ detected.value = Str(NormalizedAnswer)
       /\ pc \notin {"h_detected", "tt_start"} =>
              /\ CallsOf("translateText") # {}
              /\ \A i \in CallsOf("translateText") :
                    calls[i].target = Str(NormalizedAnswer)

\* the translator was asked to translate into "french"
C8_Witness ==
    /\ entry = "handler"
    /\ keywordResult = Null
    /\ ClassifierAnswered
    /\ NormalizedAnswer = <<102, 114, 101, 110, 99, 104>>
    /\ NormalizedAnswer \notin Languages
    /\ \E i \in CallsOf("translateText") :
          calls[i].target = Str(<<102, 114, 101, 110, 99, 104>>)

(***************************************************************************)
(* Properties of translateText                                             *)
(***************************************************************************)
TranslatorAsked == calls # <<>> /\ calls[Len(calls)].fn = "translateText"

\* the translator's request, when one was sent, is the latest request
TranslatorSettled == TranslatorAsked /\ Len(responses) = Len(calls)

\* the translator's API call failed: the request was rejected, or the
\* response has no readable choices[0].message.content
TranslatorFailed == TranslatorSettled /\ Latest.kind # "content"

TranslatorAnswered == TranslatorSettled /\ Latest.kind = "content"

\* the message of the error a failed call raises inside the try
FailureMessage(o) == IF o.kind = "reject" THEN o.content ELSE TYPE_ERROR

\* C11: when translateText's API call fails, that call stays its only one,
\* and translateText ends by raising an error whose message is "Error
\* occurred during translation: " followed by the failure's message; it
\* returns no value.
C11_FailureIsWrappedOnce ==
    (entry = "translateText" /\ TranslatorFailed) =>
        /\ Len(calls) = 1
        /\ pending = {}
        /\ translated.status # "returned"
        /\ pc \in {"tt_parse", "tt_catch", "done"}
        /\ pc = "done" =>
              translated = Raised(WRAP_PREFIX \o FailureMessage(Latest))

\* translateText raised "Error occurred during translation: API Error"
C11_Witness ==
    /\ entry = "translateText"
    /\ pc = "done"
    /\ TranslatorFailed
    /\ Latest = Outcome("reject", API_ERROR)
    /\ translated = Raised(WRAP_PREFIX \o API_ERROR)

\* r is c without its leading and trailing whitespace, otherwise unchanged
IsTrimOf(r, c) ==
    \E i \in 0..Len(c) : \E j \in i..Len(c) :
        /\ r = SubSeq(c, i + 1, j)
        /\ \A k \in 1..i : IsSpace(c[k])
        /\ \A k \in (j + 1)..Len(c) : IsSpace(c[k])
        /\ r # <<>> => ~IsSpace(r[1]) /\ ~IsSpace(r[Len(r)])

\* C12: on a successful API call translateText returns the content without
\* its leading and trailing whitespace and otherwise unchanged; its request
\* holds a system message naming the target language, then the source text,
\* verbatim, as the only user message.
C12_TrimmedContentVerbatimSource ==
    (entry = "translateText" /\ TranslatorAsked) =>
        /\ LET m == calls[1].messages
           IN  /\ Len(m) = 2
               /\ m[1].role = "system"
               /\ Includes(m[1].content, targetLanguage.v)
               /\ m[2] = [role |-> "user", content |-> textToTranslate.v]
        /\ (pc = "done" /\ TranslatorAnswered) =>
              /\ translated.status = "returned"
              /\ translated.value.t = "string"
              /\ IsTrimOf(translated.value.v, Latest.content)

\* a padded source text was sent as it is and a padded answer was returned
\* without its padding
C12_Witness ==
    /\ entry = "translateText"
    /\ pc = "done"
    /\ TranslatorAnswered
    /\ textToTranslate.v # <<>>
    /\ IsSpace(Head(textToTranslate.v))
    /\ calls[1].messages[2].content = textToTranslate.v
    /\ Latest.content # <<>>
    /\ IsSpace(Head(Latest.content))
    /\ translated.value.v # Latest.content
    /\ translated.value.v # <<>>

(***************************************************************************)
(* Properties of translateAction.handler                                   *)
(***************************************************************************)
\* the positions in invoked of the calls of fn
InvokedOf(fn) == {i \in DOMAIN invoked : invoked[i].fn = fn}

\* the calls of detectLanguage and translateText, in order
Collaborators == SelectSeq(invoked, LAMBDA c : c.fn # "composeState")

HandlerDone == entry = "handler" /\ pc = "done"

KeyConfigured == setting.t = "string" /\ setting.v # <<>>

\* the handler has a state, passed or composed, with a recentMessagesData
HistoryRead == KeyConfigured /\ state # "undefined" /\ recent.defined

AgentEntries(msgs) == {i \in DOMAIN msgs : msgs[i].userId = AGENT_ID}

\* the most recent agent-authored entry of a history that has one
MostRecentAgent(msgs) ==
    CHOOSE i \in AgentEntries(msgs) : \A j \in AgentEntries(msgs) : j <= i

MostRecentAgentHasText(msgs) ==
    /\ AgentEntries(msgs) # {}
    /\ msgs[MostRecentAgent(msgs)].text.t = "string"
    /\ msgs[MostRecentAgent(msgs)].text.v # <<>>

\* message.content.text || ""
InstructionText == IF instruction.t = "string" THEN instruction.v ELSE <<>>

\* C13: when the OPENAI_API_KEY setting is missing or empty nothing is
\* invoked and no request is sent, and the handler ends having delivered
\* exactly "OpenAI API key is not configured" and returned false.
C13_MissingKeyStopsHandler ==
    (entry = "handler" /\ (setting = Undefined \/ setting = Str(<<>>)))
    => /\ invoked = <<>>
       /\ calls = <<>>
       /\ detected = Running
       /\ translated = Running
       /\ pc \in {"h_start", "done"}
       /\ pc = "done" => delivered = <<MSG_NO_KEY>> /\ ret = "false"

\* the setting is the empty string and the handler has ended
C13_Witness ==
    /\ HandlerDone
    /\ setting = Str(<<>>)
    /\ delivered = <<MSG_NO_KEY>>
    /\ ret = "false"

\* what C14 says of a finished handler
HappyPath ==
    /\ detected.status = "returned"
    /\ Collaborators =
          << Call("detectLanguage", <<Str(InstructionText), setting>>),
             Call("translateText",
                  <<recent.msgs[MostRecentAgent(recent.msgs)].text,
                    detected.value, setting>>) >>
    /\ translated.status = "returned" => delivered = <<translated.value.v>>

\* C14 as stated: a configured key and a history whose most recent
\* agent-authored message has text are enough for the handler to call
\* detectLanguage once, then translateText once, and deliver its result.
C14_Original ==
    (HandlerDone /\ HistoryRead /\ MostRecentAgentHasText(recent.msgs))
    => HappyPath

\* C14: with a configured key and a history of at least two entries whose
\* most recent agent-authored message has text, the handler calls
\* detectLanguage once with (the instruction text, the key), then
\* translateText once with (that message's text, the detected language, the
\* key), and what translateText returns is delivered unmodified.
C14_HappyPathCalls ==
    (/\ HandlerDone
     /\ HistoryRead
     /\ Len(recent.msgs) >= 2
     /\ MostRecentAgentHasText(recent.msgs))
    => HappyPath

\* the state was composed, the instruction has no text, and the reply of
\* the translator, trimmed, was delivered
C14_Witness ==
    /\ HandlerDone
    /\ state = "composed"
    /\ instruction = Undefined
    /\ Len(recent.msgs) >= 2
    /\ MostRecentAgentHasText(recent.msgs)
    /\ Len(invoked) = 3
    /\ translated.status = "returned"
    /\ delivered = <<translated.value.v>>
    /\ Latest.content # translated.value.v

\* C15: every call of translateText is given the text of the most recent
\* agent-authored entry of recentMessagesData; when that entry has no text
\* translateText is never called, and the handler that reached the search
\* ends with "No agent message found to translate".
C15_MostRecentAgentEntry ==
    entry = "handler" =>
    /\ \A i \in InvokedOf("translateText") :
          /\ MostRecentAgentHasText(recent.msgs)
          /\ invoked[i].args[1] =
                recent.msgs[MostRecentAgent(recent.msgs)].text
    /\ textToTranslate # NotYet =>
          /\ MostRecentAgentHasText(recent.msgs)
          /\ textToTranslate = recent.msgs[MostRecentAgent(recent.msgs)].text
    /\ (/\ HandlerDone
        /\ HistoryRead
        /\ Len(recent.msgs) >= 2
        /\ AgentEntries(recent.msgs) # {}
        /\ ~MostRecentAgentHasText(recent.msgs))
       => /\ delivered = <<MSG_NO_AGENT>>
          /\ Collaborators = <<>>

\* an earlier agent-authored entry has a text and the most recent has none
C15_Witness ==
    /\ HandlerDone
    /\ HistoryRead
    /\ Len(recent.msgs) = 3
    /\ recent.msgs[1].userId = AGENT_ID
    /\ recent.msgs[1].text # Undefined
    /\ recent.msgs[2].userId = AGENT_ID
    /\ recent.msgs[2].text = Undefined
    /\ recent.msgs[3].userId # AGENT_ID
    /\ delivered = <<MSG_NO_AGENT>>

\* two agent-authored entries with different texts: the later was translated
C15_WitnessLater ==
    /\ HandlerDone
    /\ Len(recent.msgs) = 3
    /\ recent.msgs[1].userId = AGENT_ID
    /\ recent.msgs[2].userId = AGENT_ID
    /\ recent.msgs[1].text # Undefined
    /\ recent.msgs[2].text # Undefined
    /\ recent.msgs[1].text # recent.msgs[2].text
    /\ \E i \in InvokedOf("translateText") :
          invoked[i].args[1] = recent.msgs[2].text

\* C16: when translateText raises an error with message m, nothing is
\* delivered but "Error during translation: " followed by m, once, and the
\* handler returns false.
C16_TranslationErrorReported ==
    (entry = "handler" /\ translated.status = "raised")
    => /\ pc \in {"h_translated", "h_catch", "done"}
       /\ pc # "done" => delivered = <<>> /\ ret = "pending"
       /\ pc = "done" =>
             /\ delivered = <<ERROR_PREFIX \o translated.value.v>>
             /\ ret = "false"

\* translateText raised "Translation error" and the handler has ended
C16_Witness ==
    /\ HandlerDone
    /\ translated = Raised(TRANSLATION_ERROR)
    /\ delivered = <<ERROR_PREFIX \o TRANSLATION_ERROR>>
    /\ ret = "false"

\* C17: with a configured key and a recentMessagesData of fewer than two
\* entries, neither detectLanguage nor translateText is invoked, and the
\* handler ends having delivered "No previous message to translate" and
\* returned false.
C17_ShortHistory ==
    (entry = "handler" /\ HistoryRead /\ Len(recent.msgs) < 2)
    => /\ Collaborators = <<>>
       /\ calls = <<>>
       /\ detected = Running
       /\ translated = Running
       /\ pc = "done" => delivered = <<MSG_NO_PREVIOUS>> /\ ret = "false"

\* the single entry is agent-authored and has a text
C17_Witness ==
    /\ HandlerDone
    /\ HistoryRead
    /\ Len(recent.msgs) = 1
    /\ recent.msgs[1].userId = AGENT_ID
    /\ recent.msgs[1].text # Undefined
    /\ delivered = <<MSG_NO_PREVIOUS>>
    /\ ret = "false"

\* C18: with a configured key and at least two entries none of which is
\* agent-authored, neither detectLanguage nor translateText is invoked, and
\* the handler ends having delivered "No agent message found to translate"
\* and returned false.
C18_NoAgentEntry ==
    (/\ entry = "handler"
     /\ HistoryRead
     /\ Len(recent.msgs) >= 2
     /\ \A i \in DOMAIN recent.msgs : recent.msgs[i].userId # AGENT_ID)
    => /\ Collaborators = <<>>
       /\ calls = <<>>
       /\ detected = Running
       /\ translated = Running
       /\ pc = "done" => delivered = <<MSG_NO_AGENT>> /\ ret = "false"

\* two user-authored entries, and the handler has ended
C18_Witness ==
    /\ HandlerDone
    /\ HistoryRead
    /\ Len(recent.msgs) = 2
    /\ \A i \in DOMAIN recent.msgs : recent.msgs[i].userId # AGENT_ID
    /\ delivered = <<MSG_NO_AGENT>>
    /\ ret = "false"

\* C19: when detectLanguage raises, translateText is never called, and the
\* handler ends having delivered "Could not detect target language" and
\* returned false.
C19_DetectionErrorReported ==
    (entry = "handler" /\ detected.status = "raised")
    => /\ InvokedOf("translateText") = {}
       /\ translated = Running
       /\ pc \in {"h_detected", "done"}
       /\ pc = "done" => delivered = <<MSG_NO_LANGUAGE>> /\ ret = "false"

\* detectLanguage raised "Language detection error" and the handler ended
C19_Witness ==
    /\ HandlerDone
    /\ detected = Raised(DETECTION_ERROR)
    /\ InvokedOf("detectLanguage") # {}
    /\ delivered = <<MSG_NO_LANGUAGE>>
    /\ ret = "false"

\* the translated text was delivered to the callback
TranslationDelivered ==
    /\ translated.status = "returned"
    /\ delivered = <<translated.value.v>>

\* C20: the handler returns true when the translated text was delivered and
\* false on every error path.
C20_ReturnsSuccessStatus ==
    HandlerDone =>
       /\ ret \in {"true", "false"}
       /\ ret = "true" <=> TranslationDelivered

(***************************************************************************)
(* Properties of the handler as a whole                                    *)
(***************************************************************************)
\* the classifier was asked on behalf of the handler and its call failed
ClassifierCallFailed ==
    /\ ClassifierAsked
    /\ responses # <<>>
    /\ responses[1].kind # "content"

\* C21: with the real detectLanguage the handler never sees detection
\* raise and never delivers "Could not detect target language"; once
\* detection is over for an instruction without trigger substring whose
\* classifier call failed, translateText has been called with "english".
C21_ClassifierFailureNotSurfaced ==
    entry = "handler" =>
    /\ detected.status # "raised"
    /\ byPrompt.status # "raised"
    /\ \A i \in DOMAIN delivered : delivered[i] # MSG_NO_LANGUAGE
    /\ (/\ ClassifierCallFailed
        /\ pc \notin {"dp_parse", "dp_catch", "dl_resume", "h_detected"}
        /\ TriggeredLanguages(InstructionText) = {})
       => /\ InvokedOf("translateText") # {}
          /\ \A i \in InvokedOf("translateText") :
                invoked[i].args[2] = Str(<<101, 110, 103, 108, 105, 115, 104>>)

\* the classifier's request for "xyz" was rejected, and the translator's
\* reply for "english" was delivered
C21_Witness ==
    /\ HandlerDone
    /\ instruction = Str(<<120, 121, 122>>)
    /\ ClassifierCallFailed
    /\ responses[1].kind = "reject"
    /\ \E i \in InvokedOf("translateText") : invoked[i].args[2] = Str(english)
    /\ TranslationDelivered

\* the messages the handler delivers instead of a translation
IsErrorMessage(m) ==
    \/ m \in {MSG_NO_KEY, MSG_NO_PREVIOUS, MSG_NO_AGENT, MSG_NO_LANGUAGE}
    \/ /\ Len(m) >= Len(ERROR_PREFIX)
       /\ SubSeq(m, 1, Len(ERROR_PREFIX)) = ERROR_PREFIX

\* C22: the callback is invoked at most once, and exactly once by the time
\* the handler ends: with the translated text when translateText returned,
\* with one error message otherwise, also when composeState or reading
\* recentMessagesData raised.
C22_CallbackExactlyOnce ==
    entry = "handler" =>
    /\ Len(delivered) <= 1
    /\ pc # "done" => delivered = <<>>
    /\ pc = "done" =>
          /\ Len(delivered) = 1
          /\ IF translated.status = "returned"
             THEN delivered[1] = translated.value.v /\ ret # "false"
             ELSE IsErrorMessage(delivered[1]) /\ ret = "false"

\* recentMessagesData is missing from the composed state, and the handler
\* ended with the one message of its catch clause
C22_Witness ==
    /\ HandlerDone
    /\ state = "composed"
    /\ ~recent.defined
    /\ delivered = <<ERROR_PREFIX \o TYPE_ERROR>>

\* the message of the first failing step, else the translated text
Expected ==
    IF ~KeyConfigured THEN MSG_NO_KEY
    ELSE IF state = "undefined" THEN ERROR_PREFIX \o COMPOSE_ERROR
    ELSE IF ~recent.defined THEN ERROR_PREFIX \o TYPE_ERROR
    ELSE IF Len(recent.msgs) < 2 THEN MSG_NO_PREVIOUS
    ELSE IF ~MostRecentAgentHasText(recent.msgs) THEN MSG_NO_AGENT
    ELSE IF detected.status = "raised" THEN MSG_NO_LANGUAGE
    ELSE IF translated.status = "raised"
         THEN ERROR_PREFIX \o translated.value.v
    ELSE translated.value.v

\* C23: the one message delivered is that of the first failing check in
\* the order key, history length, agent message with text, detection,
\* translation; detectLanguage is called only after the first three passed
\* and translateText only after detection returned; composeState is called
\* at most once, before anything else, only when no state was passed in
\* and the key is configured.
C23_ChecksInFixedOrder ==
    entry = "handler" =>
    /\ pc = "done" => delivered = <<Expected>>
    /\ InvokedOf("composeState") \subseteq {1}
    /\ InvokedOf("composeState") # {} => ~stateGiven /\ KeyConfigured
    /\ InvokedOf("detectLanguage") # {} =>
          /\ HistoryRead
          /\ Len(recent.msgs) >= 2
          /\ MostRecentAgentHasText(recent.msgs)
    /\ InvokedOf("translateText") # {} =>
          /\ InvokedOf("detectLanguage") # {}
          /\ detected.status = "returned"
    /\ translated # Running => InvokedOf("translateText") # {}

\* the history fails the length check and the agent check, the state had to
\* be composed, and the length check's message was delivered
C23_Witness ==
    /\ HandlerDone
    /\ KeyConfigured
    /\ invoked = <<Call("composeState", <<instruction>>)>>
    /\ state = "composed"
    /\ Len(recent.msgs) = 1
    /\ AgentEntries(recent.msgs) = {}
    /\ delivered = <<MSG_NO_PREVIOUS>>

\* C24: with the real translateText, when the translator's API call fails
\* with message m the handler ends having delivered "Error during
\* translation: Error occurred during translation: " followed by m, and
\* nothing else.
C24_BothPrefixes ==
    (entry = "handler" /\ TranslatorFailed)
    => /\ pc \in {"tt_parse", "tt_catch", "h_translated", "h_catch", "done"}
       /\ translated.status # "returned"
       /\ pc = "done" =>
             /\ delivered =
                   << <<69, 114, 114, 111, 114, 32, 100, 117, 114, 105, 110, 103, 32, 116, 114, 97, 110, 115, 108, 97, 116, 105, 111, 110, 58, 32, 69, 114, 114, 111, 114, 32, 111, 99, 99, 117, 114, 114, 101, 100, 32, 100, 117, 114, 105, 110, 103, 32, 116, 114, 97, 110, 115, 108, 97, 116, 105, 111, 110, 58, 32>>
                      \o FailureMessage(Latest) >>
             /\ ret = "false"

\* the translator's request was rejected with "API Error"
C24_Witness ==
    /\ HandlerDone
    /\ TranslatorFailed
    /\ Latest = Outcome("reject", API_ERROR)
    /\ delivered = <<ERROR_PREFIX \o WRAP_PREFIX \o API_ERROR>>
====
